---------------------------- MODULE Spec2Model ----------------------------
(***************************************************************************)
(* State machine of src/main.rs: a winit window whose wgpu surface is      *)
(* cleared on every redraw with a colour chosen by `cursor_visible`.       *)
(*                                                                         *)
(* One action is one invocation of the closure handed to event_loop.run    *)
(* (main.rs:30-70), or one step of main / State::new before the loop.      *)
(* `calls` records, in program order, the calls into winit / wgpu / std    *)
(* that the latest invocation made, so that what a handler did (and in     *)
(* which order) is part of the state.                                      *)
(*                                                                         *)
(* The window system and the graphics driver are the environment: the      *)
(* window's inner size, the surface's capability list and the outcome of   *)
(* get_current_texture are chosen by it.                                   *)
(***************************************************************************)
EXTENDS Integers, Sequences, FiniteSets, TLC

\* Largest window width / height the environment chooses (0 = collapsed).
MaxWidth == 2
MaxHeight == 1
\* Longest capability list the adapter reports.
MaxFormats == 2

VARIABLES
    pc,               \* "main" | "loop" | "exited" | "panicked"
    exit_code,        \* process exit status, -1 while the process runs
    flow,             \* the ControlFlow the event loop holds (main.rs:30)
    cursor_visible,   \* State.cursor_visible (main.rs:81)
    inner_size,       \* what window.inner_size() returns now
    formats,          \* what surface.get_capabilities(adapter).formats returns now
    config,           \* the SurfaceConfiguration in force on the surface
    redraw_requested, \* window.request_redraw() was called, not yet served
    announced,        \* size carried by the last Resized / ScaleFactorChanged
    eprinted,         \* the messages written with eprintln! so far
    event,            \* the event the latest closure invocation received
    calls,            \* the calls that invocation made, in order
    cursor_set        \* <<b>>: the last window.set_cursor_visible(b); <<>>: none yet

vars == <<pc, exit_code, flow, cursor_visible, inner_size, formats, config,
          redraw_requested, announced, eprinted, event, calls, cursor_set>>

----------------------------------------------------------------------------
(* Values *)

Sizes == [width : 0..MaxWidth, height : 0..MaxHeight]

Formats == {"Bgra8UnormSrgb", "Rgba8UnormSrgb"}

\* Capability lists: finite lists of distinct formats, the empty one included
\* (wgpu reports an empty list for a surface the adapter cannot present to).
FormatLists ==
    {fs \in UNION {[1..n -> Formats] : n \in 0..MaxFormats} :
        \A i, j \in 1..Len(fs) : i # j => fs[i] # fs[j]}

NoSize == [width |-> -1, height |-> -1]

NoConfig ==
    [configured |-> FALSE, usage |-> "none", format |-> "none",
     width |-> -1, height |-> -1, present_mode |-> "none",
     alpha_mode |-> "none", view_formats |-> <<>>]

\* A descriptor with width and height exchanged.
SurfaceConfiguration_swapped(preferred_format, window_size) ==
    [configured |-> TRUE, usage |-> "RENDER_ATTACHMENT",
     format |-> preferred_format,
     width |-> window_size.height, height |-> window_size.width,
     present_mode |-> "Fifo", alpha_mode |-> "Auto", view_formats |-> <<>>]

SurfaceConfiguration(preferred_format, window_size) ==
    [configured |-> TRUE, usage |-> "RENDER_ATTACHMENT",
     format |-> preferred_format,
     width |-> window_size.width, height |-> window_size.height,
     present_mode |-> "Fifo", alpha_mode |-> "Auto", view_formats |-> <<>>]

Poll == [tag |-> "Poll", code |-> 0]
ExitWithCode(code) == [tag |-> "ExitWithCode", code |-> code]
Exit == ExitWithCode(0)

Call(op, arg) == [op |-> op, arg |-> arg]

\* A control flow that takes every write, the last one winning.
SetFlow_overwrite(f, value) == value

\* `*flow = value` inside the closure.  ControlFlow::ExitWithCode is sticky:
\* once the loop holds it, the closure is handed a scratch copy and its
\* writes are discarded.
SetFlow(f, value) == IF f.tag = "ExitWithCode" THEN f ELSE value

\* One clear colour whatever the flag.
background_color_fixed(visible) == <<1, 2, 4, 10>>

\* wgpu::Color in tenths: <<r, g, b, a>>.
background_color(visible) ==
    IF visible THEN <<1, 10, 2, 10>> ELSE <<1, 2, 4, 10>>

----------------------------------------------------------------------------
(* configure_surface (main.rs:185-200) *)

\* A configure that keeps the format of the configuration already in force.
configure_surface_cached(fmts, window_size) ==
    LET caps == <<Call("get_capabilities", <<>>)>>
    IN  IF Len(fmts) = 0
        THEN {[panicked |-> TRUE, applied |-> FALSE, config |-> NoConfig,
               calls |-> caps]}
        ELSE LET fmt == IF config.configured THEN config.format ELSE fmts[1]
                 desc == SurfaceConfiguration(fmt, window_size)
                 done == [panicked |-> FALSE, applied |-> TRUE, config |-> desc,
                          calls |-> caps \o
                              <<Call("inner_size", <<>>),
                                Call("configure", <<window_size.width,
                                                    window_size.height>>)>>]
                 refused == [done EXCEPT !.panicked = TRUE, !.applied = FALSE]
             IN  IF window_size.width = 0 \/ window_size.height = 0
                 THEN {done, refused}
                 ELSE {done}

\* The possible outcomes of one call: `panicked` when formats[0] indexes an
\* empty list, or when the driver refuses a zero-area configuration; a
\* zero-area configuration is otherwise handed to the driver as it is.
configure_surface(fmts, window_size) ==
    LET caps == <<Call("get_capabilities", <<>>)>>
    IN  IF Len(fmts) = 0
        THEN {[panicked |-> TRUE, applied |-> FALSE, config |-> NoConfig,
               calls |-> caps]}
        ELSE LET desc == SurfaceConfiguration(fmts[1], window_size)
                 done == [panicked |-> FALSE, applied |-> TRUE, config |-> desc,
                          calls |-> caps \o
                              <<Call("inner_size", <<>>),
                                Call("configure", <<window_size.width,
                                                    window_size.height>>)>>]
                 refused == [done EXCEPT !.panicked = TRUE, !.applied = FALSE]
             IN  IF window_size.width = 0 \/ window_size.height = 0
                 THEN {done, refused}
                 ELSE {done}

----------------------------------------------------------------------------
Init ==
    /\ pc = "main"
    /\ exit_code = -1
    /\ flow = Poll
    /\ cursor_visible = FALSE
    /\ inner_size \in Sizes
    /\ formats \in FormatLists \ {<<>>}
    /\ config = NoConfig
    /\ redraw_requested = FALSE
    /\ announced = NoSize
    /\ eprinted = {}
    /\ event = "none"
    /\ calls = <<>>
    /\ cursor_set = <<>>

----------------------------------------------------------------------------
(* main and State::new (main.rs:17-28, 85-128) *)

InitOutcomes == {"window_err", "surface_err", "no_adapter", "no_device", "ok"}

\* The calls State::new makes up to and including the step that fails.
new_calls(outcome) ==
    LET window  == Call("Window::new", <<IF outcome = "window_err" THEN "Err" ELSE "Ok">>)
        surface == Call("create_surface", <<IF outcome = "surface_err" THEN "Err" ELSE "Ok">>)
        adapter == Call("request_adapter", <<IF outcome = "no_adapter" THEN "None" ELSE "Some">>)
        device  == Call("request_device", <<IF outcome = "no_device" THEN "Err" ELSE "Ok">>)
    IN  CASE outcome = "window_err"  -> <<window>>
          [] outcome = "surface_err" -> <<window, surface>>
          [] outcome = "no_adapter"  -> <<window, surface, adapter>>
          [] OTHER                   -> <<window, surface, adapter, device>>

\* The Display text of the error run() returns (outermost context only).
new_error(outcome) ==
    CASE outcome = "window_err"  -> "OsError"
      [] outcome = "surface_err" -> "CreateSurfaceError"
      [] outcome = "no_adapter"  -> "Found no appropiate adapter"
      [] OTHER                   -> "Found no appropiate device"

Drops(names) == [i \in 1..Len(names) |-> Call("drop", <<names[i]>>)]

\* The locals State::new holds when it leaves early, dropped in the reverse
\* of their declaration order (event_loop, window, instance, surface,
\* adapter, then device and queue).
new_drops(outcome) ==
    CASE outcome = "window_err"  -> Drops(<<"event_loop">>)
      [] outcome = "surface_err" -> Drops(<<"instance", "window", "event_loop">>)
      [] outcome = "no_adapter"  ->
            Drops(<<"surface", "instance", "window", "event_loop">>)
      [] outcome = "no_device"   ->
            Drops(<<"adapter", "surface", "instance", "window", "event_loop">>)
      [] OTHER ->
            Drops(<<"queue", "device", "adapter", "surface", "instance",
                    "window", "event_loop">>)

\* A State whose window field is declared before its surface field.
State_drop_window_first ==
    Drops(<<"adapter", "device", "queue", "window", "surface">>)

\* Dropping a State (main.rs:73-82) drops its fields in declaration order.
State_drop == Drops(<<"adapter", "device", "queue", "surface", "window">>)

\* A main that reports the construction error and runs the loop anyway.
State_new_err_continue(outcome) ==
    /\ pc = "main"
    /\ cursor_set' = cursor_set
    /\ outcome \in InitOutcomes \ {"ok"}
    /\ pc' = "loop"
    /\ event' = "none"
    /\ eprinted' = eprinted \cup {new_error(outcome)}
    /\ calls' = new_calls(outcome) \o
                <<Call("eprintln", <<new_error(outcome)>>)>>
    /\ UNCHANGED <<exit_code, flow, cursor_visible, inner_size, formats,
                   config, redraw_requested, announced>>

\* State::new fails: run returns Err, main prints it and exits with 1.
State_new_err(outcome) ==
    /\ pc = "main"
    /\ cursor_set' = cursor_set
    /\ outcome \in InitOutcomes \ {"ok"}
    /\ pc' = "exited"
    /\ exit_code' = 1
    /\ event' = "none"
    /\ eprinted' = eprinted \cup {new_error(outcome)}
    /\ calls' = new_calls(outcome) \o new_drops(outcome) \o
                <<Call("eprintln", <<new_error(outcome)>>), Call("exit", <<1>>)>>
    /\ UNCHANGED <<flow, cursor_visible, inner_size, formats, config,
                   redraw_requested, announced>>

\* State::new succeeds (or panics inside configure_surface): the surface is
\* configured for the window's size and the event loop starts.
State_new_ok ==
    /\ pc = "main"
    /\ cursor_set' = cursor_set
    /\ \E o \in configure_surface(formats, inner_size) :
        /\ pc' = IF o.panicked THEN "panicked" ELSE "loop"
        /\ exit_code' = IF o.panicked THEN 101 ELSE exit_code
        /\ config' = IF o.applied THEN o.config ELSE config
        /\ calls' = new_calls("ok") \o o.calls \o
                    (IF o.panicked
                     THEN <<Call("panic", <<>>)>> \o new_drops("ok")
                     ELSE <<>>)
    /\ cursor_visible' = FALSE
    /\ event' = "none"
    /\ UNCHANGED <<flow, inner_size, formats, redraw_requested, announced,
                   eprinted>>

----------------------------------------------------------------------------
(* State::draw (main.rs:130-178) *)

\* Lines 137-177, with the frame in hand: the view is pinned to formats[0],
\* one pass clears it, the commands are submitted and the frame presented.
\* Indexing an empty capability list panics, and the unwinding drops the
\* frame without presenting it.
render(fmts, visible) ==
    LET caps == <<Call("get_capabilities", <<>>)>>
    IN  IF Len(fmts) = 0
        THEN [result |-> "Panic", calls |-> caps \o <<Call("discard", <<>>)>>]
        ELSE [result |-> "Ok",
              calls |-> caps \o
                  <<Call("create_view", <<fmts[1]>>),
                    Call("create_command_encoder", <<>>),
                    Call("begin_render_pass", background_color(visible)),
                    Call("submit", <<>>),
                    Call("present", <<>>)>>]

\* A draw that answers a failed acquisition by reconfiguring and retrying.
draw_retry(texture, fmts, visible) ==
    LET failed == Call("get_current_texture", <<"Err">>)
        r == render(fmts, visible)
    IN  IF texture = "Err"
        THEN [result |-> "Err",
              calls |-> <<failed, Call("configure", <<1, 1>>), failed>>]
        ELSE [r EXCEPT !.calls = <<Call("get_current_texture", <<"Ok">>)>> \o @]

\* texture: what surface.get_current_texture() returns, "Ok" or "Err".
draw(texture, fmts, visible) ==
    LET acquire == <<Call("get_current_texture", <<texture>>)>>
        r == render(fmts, visible)
    IN  IF texture = "Err"
        THEN [result |-> "Err", calls |-> acquire]
        ELSE [r EXCEPT !.calls = acquire \o @]

----------------------------------------------------------------------------
(* The closure of event_loop.run (main.rs:30-70) *)

\* The closure has no guard on `flow`: the events the loop still delivers
\* after exit was requested (the rest of the iteration) are handled like any
\* other, until LoopExit ends the process.

\* What `{err}` prints for the error of main.rs:62 (the outermost context).
DrawError == "Could not draw next frame"

\* Returns with the error only logged.
Returns_log_only(ev, body, flow_after, result) ==
    /\ pc' = pc
    /\ exit_code' = exit_code
    /\ event' = ev
    /\ IF result = "Err"
       THEN /\ calls' = body \o <<Call("eprintln", <<DrawError>>)>>
            /\ eprinted' = eprinted \cup {DrawError}
       ELSE /\ calls' = body
            /\ eprinted' = eprinted
    /\ flow' = flow_after

\* Returns asking for a plain Exit on an error.
Returns_exit_zero(ev, body, flow_after, result) ==
    /\ pc' = pc
    /\ exit_code' = exit_code
    /\ event' = ev
    /\ IF result = "Err"
       THEN /\ calls' = body \o <<Call("eprintln", <<DrawError>>),
                                  Call("set_flow", <<0>>)>>
            /\ eprinted' = eprinted \cup {DrawError}
            /\ flow' = SetFlow(flow_after, Exit)
       ELSE /\ calls' = body
            /\ eprinted' = eprinted
            /\ flow' = flow_after

\* Lines 66-69: an Err result is printed, then exit with code 1 is requested.
Returns(ev, body, flow_after, result) ==
    /\ pc' = pc
    /\ exit_code' = exit_code
    /\ event' = ev
    /\ IF result = "Err"
       THEN /\ calls' = body \o <<Call("eprintln", <<DrawError>>),
                                  Call("set_flow", <<1>>)>>
            /\ eprinted' = eprinted \cup {DrawError}
            /\ flow' = SetFlow(flow_after, ExitWithCode(1))
       ELSE /\ calls' = body
            /\ eprinted' = eprinted
            /\ flow' = flow_after

\* A panic inside the closure unwinds out of event_loop.run and main; the
\* unwinding drops the closure and with it the State it owns.
Panics(ev, body) ==
    /\ pc' = "panicked"
    /\ exit_code' = 101
    /\ event' = ev
    /\ calls' = body \o <<Call("panic", <<>>)>> \o State_drop
    /\ eprinted' = eprinted
    /\ flow' = flow

\* A press handler that draws at once instead of requesting a redraw.
MouseInputPressed_draws ==
    /\ pc = "loop"
    /\ cursor_visible' = ~cursor_visible
    /\ cursor_set' = <<cursor_visible'>>
    /\ redraw_requested' = redraw_requested
    /\ Returns("MouseInputPressed",
               <<Call("set_cursor_visible", <<cursor_visible'>>)>> \o
                   draw("Ok", <<"Bgra8UnormSrgb">>, cursor_visible').calls,
               flow, "Ok")
    /\ UNCHANGED <<inner_size, formats, config, announced>>

\* main.rs:33-43
MouseInputPressed ==
    /\ pc = "loop"
    /\ cursor_visible' = ~cursor_visible
    /\ cursor_set' = <<cursor_visible'>>
    /\ redraw_requested' = TRUE
    /\ Returns("MouseInputPressed",
               <<Call("set_cursor_visible", <<cursor_visible'>>),
                 Call("request_redraw", <<>>),
                 Call("dbg", <<cursor_visible'>>)>>,
               flow, "Ok")
    /\ UNCHANGED <<inner_size, formats, config, announced>>

\* main.rs:44-51
\* A pointer-move arm written like the press arm: it toggles the flag.
CursorMoved_toggles ==
    /\ pc = "loop"
    /\ cursor_visible' = ~cursor_visible
    /\ cursor_set' = <<cursor_visible'>>
    /\ redraw_requested' = TRUE
    /\ Returns("CursorMoved",
               <<Call("set_cursor_visible", <<cursor_visible'>>),
                 Call("request_redraw", <<>>),
                 Call("dbg", <<cursor_visible'>>)>>,
               flow, "Ok")
    /\ UNCHANGED <<inner_size, formats, config, announced>>

CursorMoved ==
    /\ pc = "loop"
    /\ cursor_set' = <<TRUE>>
    /\ cursor_visible' = TRUE
    /\ redraw_requested' = TRUE
    /\ Returns("CursorMoved",
               <<Call("set_cursor_visible", <<TRUE>>),
                 Call("request_redraw", <<>>),
                 Call("dbg", <<cursor_visible'>>)>>,
               flow, "Ok")
    /\ UNCHANGED <<inner_size, formats, config, announced>>

\* main.rs:52-55 and 180-182, shared by the two resize events: the surface
\* is reconfigured for window_size, the size window.inner_size() returns
\* while the closure runs; the size the event carries is not looked at.
reconfigure_surface(ev, window_size) ==
    \E o \in configure_surface(formats, window_size) :
        /\ config' = IF o.applied THEN o.config ELSE config
        /\ IF o.panicked
           THEN Panics(ev, o.calls)
           ELSE Returns(ev, o.calls, flow, "Ok")

\* Resized(size): the window already has the size the event carries.
Resized(size) ==
    /\ pc = "loop"
    /\ cursor_set' = cursor_set
    /\ size \in Sizes
    /\ inner_size' = size
    /\ announced' = size
    /\ reconfigure_surface("Resized", size)
    /\ UNCHANGED <<cursor_visible, formats, redraw_requested>>

\* ScaleFactorChanged { new_inner_size, .. }: the window is resized to
\* new_inner_size once the closure has returned.  While the closure runs,
\* inner_size() returns the old size where the window system resizes on
\* winit's request afterwards, and the new one where the new scale already
\* applies: either is possible.
ScaleFactorChanged(new_inner_size) ==
    /\ pc = "loop"
    /\ cursor_set' = cursor_set
    /\ new_inner_size \in Sizes
    /\ announced' = new_inner_size
    /\ \E during \in {inner_size, new_inner_size} :
          reconfigure_surface("ScaleFactorChanged", during)
    /\ inner_size' = IF pc' = "panicked" THEN inner_size ELSE new_inner_size
    /\ UNCHANGED <<cursor_visible, formats, redraw_requested>>

\* CloseRequested honoured only while the cursor is hidden.
CloseRequested_unless_visible ==
    /\ pc = "loop"
    /\ cursor_set' = cursor_set
    /\ Returns("CloseRequested", <<Call("set_flow", <<0>>)>>,
               IF cursor_visible THEN flow ELSE SetFlow(flow, Exit), "Ok")
    /\ UNCHANGED <<cursor_visible, inner_size, formats, config,
                   redraw_requested, announced>>

\* main.rs:56-59
CloseRequested ==
    /\ pc = "loop"
    /\ cursor_set' = cursor_set
    /\ Returns("CloseRequested", <<Call("set_flow", <<0>>)>>,
               SetFlow(flow, Exit), "Ok")
    /\ UNCHANGED <<cursor_visible, inner_size, formats, config,
                   redraw_requested, announced>>

\* main.rs:60: every other window event (button released, touch, focus, ...).
OtherWindowEvents == {"MouseInputReleased", "Touch"}

\* A catch-all arm that hides the cursor and asks for a redraw.
OtherWindowEvent_hides(ev) ==
    /\ pc = "loop"
    /\ cursor_set' = <<FALSE>>
    /\ ev \in OtherWindowEvents
    /\ cursor_visible' = FALSE
    /\ redraw_requested' = TRUE
    /\ Returns(ev, <<Call("set_cursor_visible", <<FALSE>>),
                     Call("request_redraw", <<>>)>>, flow, "Ok")
    /\ UNCHANGED <<inner_size, formats, config, announced>>

OtherWindowEvent(ev) ==
    /\ pc = "loop"
    /\ cursor_set' = cursor_set
    /\ ev \in OtherWindowEvents
    /\ Returns(ev, <<>>, flow, "Ok")
    /\ UNCHANGED <<cursor_visible, inner_size, formats, config,
                   redraw_requested, announced>>

\* main.rs:63: every event that is neither a window event nor a redraw.
OtherEvent ==
    /\ pc = "loop"
    /\ cursor_set' = cursor_set
    /\ Returns("MainEventsCleared", <<>>, flow, "Ok")
    /\ UNCHANGED <<cursor_visible, inner_size, formats, config,
                   redraw_requested, announced>>

\* main.rs:62: RedrawRequested, asked for by request_redraw or by the window
\* system; texture is the outcome of get_current_texture.
RedrawRequested(texture) ==
    /\ pc = "loop"
    /\ cursor_set' = cursor_set
    /\ texture \in {"Ok", "Err"}
    /\ redraw_requested' = FALSE
    /\ LET d == draw(texture, formats, cursor_visible)
       IN  IF d.result = "Panic"
           THEN Panics("RedrawRequested", d.calls)
           ELSE Returns("RedrawRequested", d.calls, flow, d.result)
    /\ UNCHANGED <<cursor_visible, inner_size, formats, config, announced>>

\* The loop holds ExitWithCode(code): it delivers LoopDestroyed (main.rs:63)
\* and the process exits with that code.  Where the loop returns before the
\* exit, the closure (and the State moved into it, main.rs:30) is dropped
\* first; where it exits from inside the loop, nothing is dropped.
LoopExit ==
    /\ pc = "loop"
    /\ cursor_set' = cursor_set
    /\ flow.tag = "ExitWithCode"
    /\ pc' = "exited"
    /\ exit_code' = flow.code
    /\ event' = "LoopDestroyed"
    /\ \E dropped \in {State_drop, <<>>} :
          calls' = dropped \o <<Call("exit", <<flow.code>>)>>
    /\ UNCHANGED <<flow, cursor_visible, inner_size, formats, config,
                   redraw_requested, announced, eprinted>>

\* The environment: the capability list the surface reports changes.
FormatsChange(fmts) ==
    /\ pc = "loop"
    /\ cursor_set' = cursor_set
    /\ fmts \in FormatLists \ {formats}
    /\ formats' = fmts
    /\ UNCHANGED <<pc, exit_code, flow, cursor_visible, inner_size, config,
                   redraw_requested, announced, eprinted, event, calls>>

----------------------------------------------------------------------------
Next ==
    \/ \E outcome \in InitOutcomes : State_new_err(outcome)
    \/ State_new_ok
    \/ MouseInputPressed
    \/ CursorMoved
    \/ \E size \in Sizes : Resized(size)
    \/ \E size \in Sizes : ScaleFactorChanged(size)
    \/ CloseRequested
    \/ \E ev \in OtherWindowEvents : OtherWindowEvent(ev)
    \/ OtherEvent
    \/ \E texture \in {"Ok", "Err"} : RedrawRequested(texture)
    \/ LoopExit
    \/ \E fmts \in FormatLists : FormatsChange(fmts)

Spec == Init /\ [][Next]_vars

\* The same program on a window system that delivers every scheduled
\* redraw: window.request_redraw() (main.rs:39, 48) guarantees that a
\* RedrawRequested event reaches the closure while the loop runs.
RedrawDelivered ==
    redraw_requested /\ \E texture \in {"Ok", "Err"} : RedrawRequested(texture)

FairSpec == Spec /\ WF_vars(RedrawDelivered)

----------------------------------------------------------------------------
(* Reading `calls` *)

Ops(cs) == {cs[i].op : i \in 1..Len(cs)}

Count(cs, op) == Cardinality({i \in 1..Len(cs) : cs[i].op = op})

\* The latest closure invocation ran State::draw and its acquisition failed.
DrawFailed ==
    /\ event = "RedrawRequested"
    /\ calls # <<>>
    /\ calls[1] = Call("get_current_texture", <<"Err">>)

\* The latest closure invocation ran State::draw and acquired a frame.
DrawAcquired ==
    /\ event = "RedrawRequested"
    /\ calls # <<>>
    /\ calls[1] = Call("get_current_texture", <<"Ok">>)

Running == pc = "loop" /\ flow = Poll

ExitRequested == flow.tag = "ExitWithCode"

----------------------------------------------------------------------------
(* C1 *)

\* C1 as stated: a redraw whose frame acquisition fails is logged and leaves
\* the controller Running (no exit is requested by it).
C1_FailedDrawKeepsRunning ==
    [][(Running /\ RedrawRequested("Err")) => (DrawError \in eprinted' /\ Running')]_vars

\* C1 amended: a redraw whose frame acquisition fails is logged and requests
\* exit with code 1; the closure itself returns normally to the loop.  From
\* Running the controller therefore moves to ExitRequested with code 1.
C1_FailedDrawRequestsExit ==
    [][RedrawRequested("Err") =>
        /\ pc' = "loop"
        /\ calls' = <<Call("get_current_texture", <<"Err">>),
                      Call("eprintln", <<DrawError>>),
                      Call("set_flow", <<1>>)>>
        /\ DrawError \in eprinted'
        /\ ExitRequested'
        /\ (flow = Poll => flow' = ExitWithCode(1))]_vars

C1_Witness ==
    /\ DrawFailed
    /\ pc = "loop"
    /\ flow = ExitWithCode(1)
    /\ DrawError \in eprinted

----------------------------------------------------------------------------
(* C2 *)

\* C2: after a CloseRequested event has been handled the loop holds an exit
\* value, whatever cursor_visible is and whatever the state was before.
C2_CloseRequestsExit ==
    event = "CloseRequested" => (ExitRequested /\ pc = "loop")

C2_Witness ==
    /\ event = "CloseRequested"
    /\ cursor_visible
    /\ flow = Exit

----------------------------------------------------------------------------
(* C3 *)

\* C3 as stated: no draw runs while the configured width / height differ
\* from the size announced by a resize event that was already delivered.
C3_DrawAtAnnouncedSize ==
    (DrawAcquired /\ "present" \in Ops(calls)
        /\ announced.width > 0 /\ announced.height > 0
        /\ config.width > 0 /\ config.height > 0) =>
        (config.width = announced.width /\ config.height = announced.height)

----------------------------------------------------------------------------
(* C4 *)

\* C4 as stated: surface.configure is never called with a zero width or
\* height, and no configuration with a zero dimension is ever in force.
C4_NeverZeroAreaConfigured ==
    /\ \A i \in 1..Len(calls) :
          calls[i].op = "configure" => (calls[i].arg[1] > 0 /\ calls[i].arg[2] > 0)
    /\ config.configured => (config.width > 0 /\ config.height > 0)

----------------------------------------------------------------------------
(* C5 *)

\* C5 as stated: every handled RedrawRequested acquires exactly once, and a
\* frame that was acquired is presented exactly once in the same draw call
\* (so none is presented twice and none is left over for the next acquire).
C5_FrameConsumedOnce ==
    (event = "RedrawRequested" /\ config.width > 0 /\ config.height > 0) =>
        /\ Count(calls, "get_current_texture") = 1
        /\ Count(calls, "present") = (IF DrawAcquired THEN 1 ELSE 0)

----------------------------------------------------------------------------
(* C6 *)

RenderOps ==
    {"get_capabilities", "create_view", "create_command_encoder",
     "begin_render_pass", "submit", "present"}

\* The calls that acquire, record, submit or present a frame.
FrameOps == (RenderOps \ {"get_capabilities"}) \cup {"get_current_texture"}

\* C6: a draw whose acquisition failed made exactly one acquisition call and
\* no configure, no view / encoder / pass, no submit and no present; the
\* only other things the closure did were to print the error and ask to exit.
C6_FailedAcquireAbortsFrame ==
    DrawFailed =>
        /\ Count(calls, "get_current_texture") = 1
        /\ Ops(calls) \cap (RenderOps \cup {"configure", "inner_size"}) = {}
        /\ Ops(calls) = {"get_current_texture", "eprintln", "set_flow"}

C6_Witness ==
    /\ DrawFailed
    /\ config.configured
    /\ "present" \notin Ops(calls)

----------------------------------------------------------------------------
(* C8 *)

\* C8 as stated: no failure while handling RedrawRequested or a resize
\* event unwinds out of the closure.
C8_NoUnwindFromHandler ==
    (event \in {"RedrawRequested", "Resized", "ScaleFactorChanged"}
        /\ inner_size.width > 0 /\ inner_size.height > 0
        /\ config.width > 0 /\ config.height > 0)
    => pc # "panicked"

----------------------------------------------------------------------------
(* C7 *)

\* In every closure invocation and in main, an exit with code 1 is asked for
\* only after the error has been printed.
PrintedBeforeExit(cs) ==
    \A i \in 1..Len(cs) :
        (cs[i].op \in {"set_flow", "exit"} /\ cs[i].arg = <<1>>) =>
            \E j \in 1..(i - 1) : cs[j].op = "eprintln"

\* C7 as stated: the process ends with 0 after a close signal that no draw
\* error preceded, and with 1 when State::new failed or any State::draw
\* returned an error; the message is printed before the exit is requested.
C7_ExitCodeContract ==
    /\ (pc = "exited" /\ event = "LoopDestroyed" /\ DrawError \notin eprinted)
          => exit_code = 0
    /\ (pc = "exited" /\ eprinted # {} /\ inner_size.width > 0
            /\ inner_size.height > 0) => exit_code = 1
    /\ event # "LoopDestroyed" => PrintedBeforeExit(calls)

\* C7 amended: the first exit request decides the exit code.  A close signal
\* handled while Running gives 0, a draw error returned while Running gives
\* 1, a failing State::new gives 1; a draw error (or close signal) handled
\* after exit was requested leaves the code as it is, although the error is
\* still printed.  The message is printed before the exit is requested.
C7_FirstExitRequestDecides ==
    [][ /\ (Running /\ CloseRequested) => flow' = ExitWithCode(0)
        /\ (Running /\ RedrawRequested("Err")) =>
              (flow' = ExitWithCode(1) /\ DrawError \in eprinted')
        /\ ExitRequested => flow' = flow
        /\ LoopExit => (pc' = "exited" /\ exit_code' = flow.code)
        /\ (pc = "main" /\ pc' = "exited") =>
              (exit_code' = 1 /\ eprinted' # {} /\ Len(calls') >= 2)
        /\ (pc' = "exited" /\ exit_code' = 1) => eprinted' # {}
        /\ (pc' = "exited" /\ exit_code' = 0) => flow' = Exit
        /\ event' # "LoopDestroyed" => PrintedBeforeExit(calls')
      ]_vars

\* The process has ended with 1 through a draw error.
C7_Witness ==
    /\ pc = "exited"
    /\ event = "LoopDestroyed"
    /\ exit_code = 1
    /\ eprinted = {DrawError}

----------------------------------------------------------------------------
(* C9 *)

ClearColor(cs) ==
    cs[CHOOSE i \in 1..Len(cs) : cs[i].op = "begin_render_pass"].arg

\* C9: the loop starts with cursor_visible = FALSE, every button press flips
\* it (so two presses take it FALSE -> TRUE -> FALSE), and a draw that
\* renders clears with (0.1, 0.2, 0.4, 1.0) while the flag is FALSE and with
\* the different colour (0.1, 1.0, 0.2, 1.0) while it is TRUE.
C9_ClearColorFollowsToggle ==
    [][ /\ (pc = "main" /\ pc' = "loop") => cursor_visible' = FALSE
        /\ MouseInputPressed => cursor_visible' = ~cursor_visible
        /\ (RedrawRequested("Ok") /\ pc' = "loop") =>
              ClearColor(calls') = (IF cursor_visible THEN <<1, 10, 2, 10>>
                                                      ELSE <<1, 2, 4, 10>>)
      ]_vars

\* A frame cleared with the colour of the visible cursor was presented.
C9_Witness ==
    /\ DrawAcquired
    /\ cursor_visible
    /\ "present" \in Ops(calls)
    /\ ClearColor(calls) = <<1, 10, 2, 10>>

----------------------------------------------------------------------------
(* C10 *)

\* C10: handling a button press or a pointer move makes no acquisition, no
\* render call, no present and no configure; it changes cursor_visible,
\* passes it to the window, prints it with dbg! and requests a redraw.  Frames
\* are acquired, rendered and presented only while handling RedrawRequested.
C10_InputHandlersOnlySchedule ==
    [][ /\ (MouseInputPressed \/ CursorMoved) =>
              /\ Ops(calls') = {"set_cursor_visible", "request_redraw", "dbg"}
              /\ Ops(calls') \cap (FrameOps \cup {"configure"}) = {}
              /\ redraw_requested'
              /\ UNCHANGED <<pc, exit_code, flow, inner_size, formats, config,
                             announced, eprinted>>
        /\ (Ops(calls') \cap FrameOps # {}) => event' = "RedrawRequested"
      ]_vars

C10_Witness ==
    /\ event \in {"MouseInputPressed", "CursorMoved"}
    /\ redraw_requested
    /\ "request_redraw" \in Ops(calls)
    /\ config.configured

----------------------------------------------------------------------------
(* C11 *)

\* Position of the drop of `name` in cs, 0 when it is not dropped there.
DropAt(cs, name) ==
    IF \E i \in 1..Len(cs) : cs[i] = Call("drop", <<name>>)
    THEN CHOOSE i \in 1..Len(cs) : cs[i] = Call("drop", <<name>>)
    ELSE 0

SurfaceCreated(cs) ==
    \E i \in 1..Len(cs) : cs[i] = Call("create_surface", <<"Ok">>)

\* C11: wherever the window is dropped (State dropped after the loop or by
\* an unwinding, locals dropped by an early return of State::new), the
\* surface created from it was dropped earlier in the same sequence; and
\* every early return of State::new that follows the creation of the
\* surface does drop both.
C11_SurfaceDroppedBeforeWindow ==
    /\ (DropAt(calls, "window") > 0 /\ (SurfaceCreated(calls) \/ event # "none"))
          => (0 < DropAt(calls, "surface")
                /\ DropAt(calls, "surface") < DropAt(calls, "window"))
    /\ (pc = "exited" /\ event = "none" /\ SurfaceCreated(calls))
          => DropAt(calls, "window") > 0

\* The State was dropped when the loop ended.
C11_Witness ==
    /\ pc = "exited"
    /\ event = "LoopDestroyed"
    /\ DropAt(calls, "surface") > 0
    /\ DropAt(calls, "surface") < DropAt(calls, "window")

----------------------------------------------------------------------------
(* C12 *)

\* The format the latest draw pinned its frame view to.
ViewFormat(cs) ==
    cs[CHOOSE i \in 1..Len(cs) : cs[i].op = "create_view"].arg[1]

\* C12 as stated: the view of every drawn frame is pinned to the format of
\* the configuration in force, whatever the capability list reports by then.
C12_ViewPinnedToConfiguredFormat ==
    (DrawAcquired /\ "create_view" \in Ops(calls)
        /\ config.width > 0 /\ config.height > 0)
    => ViewFormat(calls) = config.format

----------------------------------------------------------------------------
(* C13 *)

\* The size the latest invocation passed to surface.configure.
ConfiguredSize(cs) ==
    LET c == cs[CHOOSE i \in 1..Len(cs) : cs[i].op = "configure"]
    IN  [width |-> c.arg[1], height |-> c.arg[2]]

\* A step in which configure_surface ran and returned.
ConfigureStep ==
    /\ formats' = formats
    /\ pc' = "loop"
    /\ event' \in {"none", "Resized", "ScaleFactorChanged"}
    /\ "configure" \in Ops(calls')

\* C13: when configure_surface returns for a window of positive width and
\* height, the configuration in force has that width and height (the size
\* window.inner_size() had during the call), the first format of the
\* capability list, present mode Fifo, usage RENDER_ATTACHMENT, alpha mode
\* Auto and no view formats.
C13_ConfigureDescriptor ==
    [][ (ConfigureStep /\ ConfiguredSize(calls').width > 0
                       /\ ConfiguredSize(calls').height > 0) =>
            /\ config'.configured
            /\ config'.width = ConfiguredSize(calls').width
            /\ config'.height = ConfiguredSize(calls').height
            /\ event' = "none" => ConfiguredSize(calls') = inner_size
            /\ event' = "Resized" => ConfiguredSize(calls') = inner_size'
            /\ event' = "ScaleFactorChanged" =>
                  ConfiguredSize(calls') \in {inner_size, inner_size'}
            /\ config'.format = formats[1]
            /\ config'.present_mode = "Fifo"
            /\ config'.usage = "RENDER_ATTACHMENT"
            /\ config'.alpha_mode = "Auto"
            /\ config'.view_formats = <<>>
      ]_vars

\* A resize to 2x1 was configured while the list offered two formats.
C13_Witness ==
    /\ pc = "loop"
    /\ event = "Resized"
    /\ Len(formats) = 2
    /\ config.format = formats[1]
    /\ config.width = 2 /\ config.height = 1
    /\ inner_size = [width |-> 2, height |-> 1]

----------------------------------------------------------------------------
(* C14 *)

\* C14: whenever configure_surface returns, the configuration in force is
\* the one built from the capability list and the window size of that call
\* alone, nothing of the previous configuration is kept; so a configure that
\* follows a configure for the same size and the same first format leaves
\* the configuration as it was.
C14_ConfigureReplacesAndIsIdempotent ==
    [][ ConfigureStep =>
            /\ config' = [configured |-> TRUE, usage |-> "RENDER_ATTACHMENT",
                          format |-> formats[1],
                          width |-> ConfiguredSize(calls').width,
                          height |-> ConfiguredSize(calls').height,
                          present_mode |-> "Fifo", alpha_mode |-> "Auto",
                          view_formats |-> <<>>]
            /\ (pc = "loop" /\ "configure" \in Ops(calls)
                  /\ ConfiguredSize(calls) = ConfiguredSize(calls')
                  /\ config.format = formats[1]) => config' = config
      ]_vars

\* A configure replaced a configuration of another format and size.
C14_Witness ==
    /\ pc = "loop"
    /\ event \in {"Resized", "ScaleFactorChanged"}
    /\ "configure" \in Ops(calls)
    /\ formats = <<"Rgba8UnormSrgb", "Bgra8UnormSrgb">>
    /\ config.format = "Rgba8UnormSrgb"
    /\ config.width = 1 /\ config.height = 1

----------------------------------------------------------------------------
(* C15 *)

\* request_adapter answered None or request_device answered Err.
AdapterOrDeviceFailed(cs) ==
    \E i \in 1..Len(cs) : cs[i] \in {Call("request_adapter", <<"None">>),
                                     Call("request_device", <<"Err">>)}

AdapterAndDeviceValid(cs) ==
    /\ \E i \in 1..Len(cs) : cs[i] = Call("request_adapter", <<"Some">>)
    /\ \E i \in 1..Len(cs) : cs[i] = Call("request_device", <<"Ok">>)

\* C15: when no adapter is found or the device request fails, the process
\* prints the error and exits with code 1 without configuring the surface,
\* without starting the event loop and without handling an event, and
\* nothing happens afterwards; and the event loop is only ever entered by a
\* State::new in which both the adapter and the device request succeeded.
C15_FailedConstructionExitsOne ==
    [][ /\ AdapterOrDeviceFailed(calls') =>
              /\ pc = "main" /\ pc' = "exited"
              /\ exit_code' = 1
              /\ event' = "none"
              /\ config' = NoConfig
              /\ "configure" \notin Ops(calls')
              /\ ~ AdapterAndDeviceValid(calls')
              /\ eprinted' \cap {"Found no appropiate adapter",
                                 "Found no appropiate device"} # {}
        /\ ~ AdapterOrDeviceFailed(calls)
        /\ pc' = "loop" =>
              \/ pc = "loop"
              \/ pc = "main" /\ AdapterAndDeviceValid(calls')
      ]_vars

\* The device request failed and the process exited with 1.
C15_Witness ==
    /\ pc = "exited"
    /\ exit_code = 1
    /\ event = "none"
    /\ AdapterOrDeviceFailed(calls)
    /\ "Found no appropiate device" \in eprinted

----------------------------------------------------------------------------
(* C16 *)

\* The closure ran for an event (the step is neither the loop's end nor a
\* change of the capability list).
Handled ==
    pc = "loop" /\ formats' = formats /\ event' # "LoopDestroyed"

\* C16 as stated: once exit is requested, no later run of the closure
\* configures the surface, acquires or presents a frame or changes
\* cursor_visible, the controller does not return to Running, and a requested
\* code 1 is not replaced by 0.
C16_ExitRequestedIsTerminal ==
    [][ (pc = "loop" /\ ExitRequested) =>
            /\ Handled => Ops(calls') \cap ({"configure"} \cup FrameOps) = {}
            /\ cursor_visible' = cursor_visible
            /\ ~ Running'
            /\ flow.code = 1 => flow'.code = 1
      ]_vars

\* C16, amended: once exit is requested the controller stays ExitRequested
\* with the same code until the loop ends (1 is not replaced by 0, nor 0 by
\* 1) and never returns to Running; the events delivered before the loop
\* ends are handled as in Running: a press still toggles cursor_visible and
\* a pointer-move still sets it, a resize still configures, a redraw still
\* acquires a frame.
C16_ExitRequestSticksHandlersStillRun ==
    [][ (pc = "loop" /\ ExitRequested) =>
            /\ ExitRequested' /\ flow'.code = flow.code
            /\ ~ Running'
            /\ pc' \in {"loop", "exited", "panicked"}
            /\ (Handled /\ event' = "MouseInputPressed") =>
                  /\ cursor_visible' = ~cursor_visible
                  /\ Call("set_cursor_visible", <<cursor_visible'>>)
                        \in {calls'[i] : i \in 1..Len(calls')}
            /\ (Handled /\ event' = "CursorMoved") => cursor_visible'
            /\ (Handled /\ event' \in {"Resized", "ScaleFactorChanged"}) =>
                  "get_capabilities" \in Ops(calls')
            /\ (Handled /\ event' = "RedrawRequested") =>
                  "get_current_texture" \in Ops(calls')
      ]_vars

\* A close signal was handled after a draw error had requested exit with 1.
C16_Witness ==
    /\ pc = "loop"
    /\ event = "CloseRequested"
    /\ flow = ExitWithCode(1)
    /\ DrawError \in eprinted

----------------------------------------------------------------------------
(* C17 *)

\* The events that fall into the two catch-all arms (main.rs:60, 63).
UnlistedEvents == OtherWindowEvents \cup {"MainEventsCleared"}

\* C17: a run of the closure for any event other than a press or a
\* pointer-move leaves cursor_visible as it was; a run for an unlisted event
\* (button released, touch, non-window events) makes no call at all: it
\* configures nothing, draws nothing, schedules nothing, prints nothing and
\* leaves the control flow alone.
C17_OnlyPressAndMoveTouchTheFlag ==
    [][ Handled =>
            /\ event' \notin {"MouseInputPressed", "CursorMoved"} =>
                  /\ cursor_visible' = cursor_visible
                  /\ "set_cursor_visible" \notin Ops(calls')
            /\ event' \in UnlistedEvents =>
                  /\ calls' = <<>>
                  /\ config' = config
                  /\ flow' = flow
                  /\ redraw_requested' = redraw_requested
                  /\ eprinted' = eprinted
                  /\ pc' = "loop"
      ]_vars

\* A touch was handled while the cursor was visible and the controller
\* Running with a redraw scheduled.
C17_Witness ==
    /\ pc = "loop"
    /\ event = "Touch"
    /\ cursor_visible
    /\ redraw_requested
    /\ flow = Poll
    /\ calls = <<>>

----------------------------------------------------------------------------
(* C18 *)

\* C18: a pointer-move leaves cursor_visible true whatever it was, and only
\* a press ever turns it false, so it is false only before the first input
\* event or when a press turned it false and no pointer-move was handled
\* since; and once window.set_cursor_visible has been called, cursor_visible
\* equals the value passed to its latest call, while before the first call
\* (no press or pointer-move handled yet) it is false.
C18_MoveSetsFlagMirrorsWindow ==
    /\ [](cursor_set # <<>> => cursor_set = <<cursor_visible>>)
    /\ [](cursor_set = <<>> => ~cursor_visible)
    /\ [][ /\ (Handled /\ event' = "CursorMoved") =>
                 (cursor_visible' /\ cursor_set' = <<TRUE>>)
           /\ (cursor_visible /\ ~cursor_visible') =>
                 (Handled /\ event' = "MouseInputPressed")
           /\ cursor_set' # cursor_set =>
                 (Handled /\ event' \in {"MouseInputPressed", "CursorMoved"})
           /\ (Handled /\ "set_cursor_visible" \in Ops(calls')) =>
                 /\ Count(calls', "set_cursor_visible") = 1
                 /\ Call("set_cursor_visible", cursor_set')
                       \in {calls'[i] : i \in 1..Len(calls')}
         ]_vars

\* A pointer-move was handled and the cursor is shown, with the redraw it
\* scheduled still pending.
C18_Witness ==
    /\ pc = "loop"
    /\ event = "CursorMoved"
    /\ cursor_visible
    /\ cursor_set = <<TRUE>>
    /\ redraw_requested

----------------------------------------------------------------------------
(* C19 *)

\* A press or pointer-move was handled and the redraw it scheduled has not
\* been served.
ChangePending ==
    /\ pc = "loop"
    /\ event \in {"MouseInputPressed", "CursorMoved"}
    /\ redraw_requested
    /\ ~ ExitRequested

\* The latest run of the closure was a State::draw that rendered, clearing
\* with the colour of the present cursor_visible.
DrawnCurrent ==
    /\ DrawAcquired
    /\ "begin_render_pass" \in Ops(calls)
    /\ ClearColor(calls) = background_color(cursor_visible)
    /\ "present" \in Ops(calls)

\* C19: under fair delivery of scheduled redraws, whenever a press or a
\* pointer-move has been handled, eventually either a State::draw renders
\* with the clear colour of the value cursor_visible has then, or the
\* controller is ExitRequested.
C19_ChangeEventuallyDrawn ==
    ChangePending ~> (DrawnCurrent \/ ExitRequested)

\* What does hold: the same with a third way out, the process having
\* panicked inside a handler.
C19_DrawnUnlessExitOrPanic ==
    ChangePending ~> (DrawnCurrent \/ ExitRequested \/ pc = "panicked")

=============================================================================
